---- MODULE Spec2Model ----
(***************************************************************************)
(* A model of the promise library of promises.go: the Promise cell, the    *)
(* combinators New / Then / All / Any, the goroutine run() started for     *)
(* each promise (or each collector of All / Any), and Wait.                *)
(*                                                                         *)
(* Promises are numbered 1, 2, ... in the order they are constructed.      *)
(* A goroutine takes two steps: its body (simpleCall / thenCall / allCall  *)
(* / anyCall, up to the point where run() takes the promise's lock) and    *)
(* its delivery (the critical section of run(), normal or recovering).     *)
(***************************************************************************)
EXTENDS Integers, Sequences, FiniteSets

\* Bounds of the model.
MaxPromises == 3
MaxWaits == 1
MaxFanIn == 2

(***************************************************************************)
(* reflect.Type: a type is the sequence of its constructors.               *)
(***************************************************************************)
INT == <<"int">>
STR == <<"string">>
ERRT == <<"error">>
PtrTo(ty) == <<"*">> \o ty
SliceOf(ty) == <<"[]">> \o ty
IsPtr(ty) == Len(ty) > 0 /\ Head(ty) = "*"
IsSlice(ty) == Len(ty) > 0 /\ Head(ty) = "[]"
Elem(ty) == Tail(ty)

\* reflect.Value: a typed value; v is the number (or the index of the
\* string), for a slice the sequence of its elements' numbers; for an
\* error, v = 0 is nil and v > 0 names the promise whose function made the
\* error.
Val(ty, n) == [ty |-> ty, v |-> n]
Zero(ty) == Val(ty, IF IsSlice(ty) THEN << >> ELSE 0)

\* error: the chain of messages, outermost first; nil is the empty chain.
NoErr == << >>
Msg(m, src) == [msg |-> m, src |-> src]
Wrap(e, m) == <<Msg(m, 0)>> \o e
ErrorOf(val) == <<Msg("err", val.v)>>

(***************************************************************************)
(* The user functions handed to New and Then.  in / out are the declared   *)
(* parameter and return types (a variadic function's last parameter is a   *)
(* slice type); beh is what the body does: "ret" returns k * (sum of the   *)
(* arguments) + c in every non-error position (the arguments themselves in *)
(* a position of slice type) and a nil trailing error,                     *)
(* "reterr" the same with a non-nil trailing error, "panic" panics with a  *)
(* string, "hang" never returns.                                           *)
(***************************************************************************)
Fn(name, in, variadic, out, beh, k, c) ==
    [name |-> name, in |-> in, variadic |-> variadic, out |-> out,
     beh |-> beh, k |-> k, c |-> c]

identity == Fn("identity", <<INT>>, FALSE, <<INT>>, "ret", 1, 0)
multiplyByTwo == Fn("multiplyByTwo", <<INT>>, FALSE, <<INT>>, "ret", 2, 3)
empty == Fn("empty", << >>, FALSE, << >>, "ret", 0, 0)
failingPromise == Fn("failingPromise", << >>, FALSE, << >>, "panic", 0, 0)
neverendingPromise == Fn("neverendingPromise", << >>, FALSE, << >>, "hang", 0, 0)
returnError == Fn("returnError", << >>, FALSE, <<STR, ERRT>>, "reterr", 0, 0)
returnVals == Fn("returnVals", <<SliceOf(INT)>>, TRUE, <<SliceOf(INT)>>, "ret", 1, 0)
NotAFunction == Fn("4", << >>, FALSE, << >>, "notfunc", 0, 0)

\* The functions of the tests of Race.
success == Fn("success", << >>, FALSE, <<STR>>, "ret", 0, 1)
justPanic == Fn("justPanic", << >>, FALSE, <<STR>>, "panic", 0, 0)

UserFns == {identity, multiplyByTwo, empty, failingPromise,
            neverendingPromise, returnError, returnVals}

\* The argument lists tried with New.
ArgLists == { << >>, <<Val(INT, 7)>>, <<Val(STR, 1)>> }

RECURSIVE SumV(_)
SumV(vals) == IF vals = << >> THEN 0 ELSE Head(vals).v + SumV(Tail(vals))

RECURSIVE Concat(_)
Concat(seqs) == IF seqs = << >> THEN << >> ELSE Head(seqs) \o Concat(Tail(seqs))

Repeat(x, n) == [i \in 1..n |-> x]

\* getResultType: the result types without a trailing error, and whether
\* the last return is the error.
GetResultType(out) ==
    IF Len(out) > 0 /\ out[Len(out)] = ERRT
    THEN [resultType |-> SubSeq(out, 1, Len(out) - 1), returnsError |-> TRUE]
    ELSE [resultType |-> out, returnsError |-> FALSE]

\* reflect.Value.Call panics before entering the function when the
\* arguments do not fit its parameters.
CallRejects(fn, args) ==
    LET n == Len(fn.in) IN
    IF fn.variadic
    THEN \/ Len(args) < n - 1
         \/ \E i \in 1..Len(args) :
               IF i < n THEN args[i].ty # fn.in[i]
                        ELSE args[i].ty # Elem(fn.in[n])
    ELSE \/ Len(args) # n
         \/ \E i \in 1..n : args[i].ty # fn.in[i]

\* The raw return values of fn called by promise self.
RawResults(fn, args, self) ==
    [j \in 1..Len(fn.out) |->
        IF fn.out[j] = ERRT
        THEN Val(ERRT, IF fn.beh = "reterr" THEN self ELSE 0)
        ELSE IF IsSlice(fn.out[j])
        THEN Val(fn.out[j], [i \in 1..Len(args) |-> args[i].v])
        ELSE Val(fn.out[j], fn.k * SumV(args) + fn.c)]

\* What a goroutine carries from its body to the end of run(): returned
\* values ("ret"), a nil result list ("nil"), or a panic in flight.
Returned(vals) == [tag |-> "ret", vals |-> vals, e |-> NoErr]
NilResults == [tag |-> "nil", vals |-> << >>, e |-> NoErr]
Panicking(e) == [tag |-> "panic", vals |-> << >>, e |-> e]

\* functionRv.Call(args) for a function that returns or panics.
Call(fn, args, self) ==
    IF CallRejects(fn, args)
    THEN Panicking(<<Msg("reflect: Call with wrong input arguments", 0)>>)
    ELSE IF fn.beh = "panic"
    THEN Panicking(<<Msg("Failed!", self)>>)
    ELSE Returned(RawResults(fn, args, self))

\* Whether Call enters the user function.
Enters(fn, args) == ~CallRejects(fn, args)
Hangs(fn, args) == Enters(fn, args) /\ fn.beh = "hang"

VARIABLES
    proms,      \* per promise: its fields fixed at construction
    complete,   \* Promise.complete
    err,        \* Promise.err
    results,    \* Promise.results
    counter,    \* Promise.counter
    workers,    \* per promise: the goroutines running run() for it
    invoked,    \* per promise: how often its user function was entered
    first,      \* per promise: err and results as stored by the first completion
    waits,      \* the calls of Wait
    lastCall    \* how the last call of New / Then / All / Any / Wait ended

vars == <<proms, complete, err, results, counter, workers, invoked, first,
          waits, lastCall>>

Ids == 1..Len(proms)

Worker(pc, out) == [pc |-> pc, out |-> out]
Fresh == Worker("body", NilResults)

\* op names the call: "New", "Then", "All", "Any", "Race" or "Wait".
Outcome(op, o, ret) == [op |-> op, outcome |-> o, ret |-> ret]

Init ==
    /\ proms = << >>
    /\ complete = << >>
    /\ err = << >>
    /\ results = << >>
    /\ counter = << >>
    /\ workers = << >>
    /\ invoked = << >>
    /\ first = << >>
    /\ waits = << >>
    /\ lastCall = Outcome("", "none", 0)

\* A structural error: the call panics at the call site, nothing is built.
StructuralPanic(op) ==
    /\ lastCall' = Outcome(op, "panic", 0)
    /\ UNCHANGED <<proms, complete, err, results, counter, workers, invoked,
                   first, waits>>

\* &Promise{...} followed by the go statements: n goroutines run for it.
Construct(op, t, fn, args, prior, resultType, returnsError, cnt, n) ==
    /\ proms' = Append(proms, [t |-> t, fn |-> fn, args |-> args, prior |-> prior,
                               resultType |-> resultType,
                               returnsError |-> returnsError])
    /\ complete' = Append(complete, FALSE)
    /\ err' = Append(err, NoErr)
    /\ results' = Append(results, << >>)
    /\ counter' = Append(counter, cnt)
    /\ workers' = Append(workers, Repeat(Fresh, n))
    /\ invoked' = Append(invoked, 0)
    /\ first' = Append(first, [done |-> FALSE, err |-> NoErr, results |-> << >>])
    /\ lastCall' = Outcome(op, "ok", Len(proms) + 1)
    /\ UNCHANGED waits

(***************************************************************************)
(* The combinators.                                                        *)
(***************************************************************************)
NewRejects(fn, args) ==
    \/ fn.beh = "notfunc"
    \/ Len(args) # Len(fn.in)
    \/ \E i \in 1..Len(args) : args[i].ty # fn.in[i]

NewPromise(op, fn, args) ==
    LET rt == GetResultType(fn.out) IN
    Construct(op, "simpleCall", fn, args, << >>, rt.resultType, rt.returnsError, 0, 1)

New(fn, args) ==
    /\ Len(proms) < MaxPromises
    /\ IF NewRejects(fn, args) THEN StructuralPanic("New")
       ELSE NewPromise("New", fn, args)

\* The inputs of f as Then compares them with the prior's result types:
\* a variadic f is specialised to the number of incoming values.
ThenInputs(fn, resultType) ==
    LET inputs == fn.in
        fixed == SubSeq(inputs, 1, Len(inputs) - 1)
        argDiff == Len(resultType) - Len(inputs)
    IN  IF ~fn.variadic THEN inputs
        ELSE IF argDiff = -1 THEN fixed
        ELSE IF argDiff > 0
             THEN fixed \o Repeat(Elem(inputs[Len(inputs)]), argDiff + 1)
        ELSE inputs

ThenRejects(p, fn) ==
    \/ fn.beh = "notfunc"
    \/ LET inputs == ThenInputs(fn, proms[p].resultType) IN
       \/ Len(inputs) # Len(proms[p].resultType)
       \/ \E i \in 1..Len(inputs) : inputs[i] # proms[p].resultType[i]

Then(p, fn) ==
    /\ Len(proms) < MaxPromises
    /\ p \in Ids
    /\ IF ThenRejects(p, fn)
       THEN StructuralPanic("Then")
       ELSE LET rt == GetResultType(fn.out) IN
            Construct("Then", "thenCall", fn, << >>, <<p>>, rt.resultType,
                      rt.returnsError, 0, 1)

\* The zero reflect.Value run() gets from All and Any.
NoFunction == Fn("", << >>, FALSE, << >>, "none", 0, 0)

PromiseLists == UNION { [1..n -> Ids] : n \in 0..MaxFanIn }

ResultTypesOf(ps) == Concat([j \in 1..Len(ps) |-> proms[ps[j]].resultType])

\* A faulty All: no promises are treated like any other list, so that no
\* collector exists to complete the promise.
AllWithoutEmptyCase(ps) ==
    /\ Len(proms) < MaxPromises
    /\ Construct("All", "allCall", NoFunction, << >>, ps,
                 ResultTypesOf(ps), FALSE, Len(ps), Len(ps))

\* All, however many promises the program has built.
AllOf(ps) ==
    IF Len(ps) = 0
    THEN NewPromise("All", empty, << >>)
    ELSE Construct("All", "allCall", NoFunction, << >>, ps,
                   ResultTypesOf(ps), FALSE, Len(ps), Len(ps))

All(ps) ==
    /\ Len(proms) < MaxPromises
    /\ AllOf(ps)

\* A faulty Any: only the numbers of result types are compared.
AnyRejectsComparingLengths(ps) ==
    \E j \in 2..Len(ps) :
        Len(proms[ps[j]].resultType) # Len(proms[ps[1]].resultType)

AnyRejects(ps) ==
    \E j \in 2..Len(ps) : proms[ps[j]].resultType # proms[ps[1]].resultType

\* A faulty Any: a single promise gets a collector like any other list.
AnyAlwaysCollecting(ps) ==
    /\ Len(proms) < MaxPromises
    /\ IF Len(ps) = 0 THEN NewPromise("Any", empty, << >>)
       ELSE IF AnyRejects(ps) THEN StructuralPanic("Any")
       ELSE Construct("Any", "anyCall", NoFunction, << >>, ps,
                      ResultTypesOf(ps), FALSE, 1, Len(ps))

Any(ps) ==
    /\ Len(proms) < MaxPromises
    /\ IF Len(ps) = 0 THEN NewPromise("Any", empty, << >>)
       ELSE IF Len(ps) = 1
       THEN /\ lastCall' = Outcome("Any", "ok", ps[1])
            /\ UNCHANGED <<proms, complete, err, results, counter, workers,
                           invoked, first, waits>>
       ELSE IF AnyRejects(ps) THEN StructuralPanic("Any")
       ELSE Construct("Any", "anyCall", NoFunction, << >>, ps,
                      ResultTypesOf(ps), FALSE, 1, Len(ps))

\* Race is not part of promises.go: it is modelled after the specification
\* (sections 3, 4.4, 5 and 9, scenarios S6 and S7).  Its promises share
\* the result types of all predecessors (I6, P6); one collector runs per
\* predecessor.
RaceLists == UNION { [1..n -> Ids] : n \in 2..MaxFanIn }

RaceRejects(ps) ==
    \E j \in 2..Len(ps) : proms[ps[j]].resultType # proms[ps[1]].resultType

Race(ps) ==
    /\ Len(proms) < MaxPromises
    /\ IF RaceRejects(ps) THEN StructuralPanic("Race")
       ELSE Construct("Race", "raceCall", NoFunction, << >>, ps,
                      proms[ps[1]].resultType, FALSE, 0, Len(ps))

(***************************************************************************)
(* The goroutines: run().                                                  *)
(***************************************************************************)
SimpleCall(p) == Call(proms[p].fn, proms[p].args, p)

ThenCall(p) ==
    LET prior == proms[p].prior[1]
        r == Call(proms[p].fn, results[prior], p)
    IN  IF err[p] # NoErr
        THEN Panicking(Wrap(err[p], "error in previous promise"))
        ELSE IF r.tag = "ret" /\ proms[prior].returnsError /\ err[prior] # NoErr
        THEN Panicking(err[prior])
        ELSE r

\* A faulty allCall: the collector does not look at its predecessor's error.
AllCallIgnoringErr(p, i) ==
    LET priors == proms[p].prior
        remaining == counter[p] - 1
    IN  [out |-> IF remaining = 0
                 THEN Returned(Concat([j \in 1..Len(priors) |-> results[priors[j]]]))
                 ELSE NilResults,
         cnt |-> remaining]

\* A faulty allCall: every collector that decrements assembles the results,
\* whatever its decrement gives.
AllCallAssemblingAlways(p, i) ==
    LET priors == proms[p].prior
        prior == priors[i]
        remaining == counter[p] - 1
    IN  IF err[prior] # NoErr
        THEN [out |-> Panicking(Wrap(err[prior], "error encountered in promise")),
              cnt |-> counter[p]]
        ELSE [out |-> Returned(Concat([j \in 1..Len(priors) |-> results[priors[j]]])),
              cnt |-> remaining]

\* A faulty allCall: the zero observer assembles from the last predecessor
\* to the first.
AllCallAssemblingBackwards(p, i) ==
    LET priors == proms[p].prior
        prior == priors[i]
        remaining == counter[p] - 1
        n == Len(priors)
    IN  IF err[prior] # NoErr
        THEN [out |-> Panicking(Wrap(err[prior], "error encountered in promise")),
              cnt |-> counter[p]]
        ELSE [out |-> IF remaining = 0
                      THEN Returned(Concat([j \in 1..n |-> results[priors[n + 1 - j]]]))
                      ELSE NilResults,
              cnt |-> remaining]

\* allCall and anyCall also change the counter: [out, cnt].
AllCall(p, i) ==
    LET priors == proms[p].prior
        prior == priors[i]
        remaining == counter[p] - 1
    IN  IF err[prior] # NoErr
        THEN [out |-> Panicking(Wrap(err[prior], "error encountered in promise")),
              cnt |-> counter[p]]
        ELSE [out |-> IF remaining = 0
                      THEN Returned(Concat([j \in 1..Len(priors) |-> results[priors[j]]]))
                      ELSE NilResults,
              cnt |-> remaining]

\* A faulty anyCall: the collector does not look at its predecessor's error.
AnyCallIgnoringErr(p, i) ==
    LET prior == proms[p].prior[i]
        remaining == counter[p] - 1
    IN  [out |-> IF remaining = 0 THEN Returned(results[prior]) ELSE NilResults,
         cnt |-> remaining]

AnyCall(p, i) ==
    LET prior == proms[p].prior[i]
        remaining == counter[p] - 1
    IN  IF err[prior] # NoErr
        THEN [out |-> Panicking(Wrap(err[prior], "error encountered in promise")),
              cnt |-> counter[p]]
        ELSE [out |-> IF remaining = 0 THEN Returned(results[prior]) ELSE NilResults,
              cnt |-> remaining]

\* The collector of Race: it awaits its predecessor and carries that
\* predecessor's outcome, a failure as a wrapped panic.
RaceCall(p, i) ==
    LET prior == proms[p].prior[i]
    IN  [out |-> IF err[prior] # NoErr
                 THEN Panicking(Wrap(err[prior], "error encountered in promise"))
                 ELSE Returned(results[prior]),
         cnt |-> counter[p]]

\* A faulty run(): a collector waits for every predecessor, not only its own.
BodyReadyAwaitingEveryPrior(p, i) ==
    CASE proms[p].t = "simpleCall" -> ~Hangs(proms[p].fn, proms[p].args)
      [] proms[p].t = "thenCall" ->
            /\ complete[proms[p].prior[1]]
            /\ (err[p] = NoErr => ~Hangs(proms[p].fn, results[proms[p].prior[1]]))
      [] OTHER -> \A j \in 1..Len(proms[p].prior) : complete[proms[p].prior[j]]

\* A faulty body: the worker does not await its predecessor.
BodyReadyWithoutAwaiting(p, i) ==
    CASE proms[p].t = "simpleCall" -> ~Hangs(proms[p].fn, proms[p].args)
      [] proms[p].t = "thenCall" ->
            err[p] = NoErr => ~Hangs(proms[p].fn, results[proms[p].prior[1]])
      [] OTHER -> TRUE

\* What the body waits for, and whether it ever comes back.
BodyReady(p, i) ==
    CASE proms[p].t = "simpleCall" -> ~Hangs(proms[p].fn, proms[p].args)
      [] proms[p].t = "thenCall" ->
            /\ complete[proms[p].prior[1]]
            /\ (err[p] = NoErr => ~Hangs(proms[p].fn, results[proms[p].prior[1]]))
      [] OTHER -> complete[proms[p].prior[i]]

BodyResult(p, i) ==
    CASE proms[p].t = "simpleCall" -> [out |-> SimpleCall(p), cnt |-> counter[p]]
      [] proms[p].t = "thenCall" -> [out |-> ThenCall(p), cnt |-> counter[p]]
      [] proms[p].t = "allCall" -> AllCall(p, i)
      [] proms[p].t = "raceCall" -> RaceCall(p, i)
      [] OTHER -> AnyCall(p, i)

BodyEnters(p) ==
    CASE proms[p].t = "simpleCall" -> Enters(proms[p].fn, proms[p].args)
      [] proms[p].t = "thenCall" ->
            err[p] = NoErr /\ Enters(proms[p].fn, results[proms[p].prior[1]])
      [] OTHER -> FALSE

\* run() up to its lock: the switch on p.t.  A collector of All whose
\* results are nil returns at once.
RunBody(p, i) ==
    /\ p \in Ids /\ i \in 1..Len(workers[p])
    /\ workers[p][i].pc = "body"
    /\ BodyReady(p, i)
    /\ LET b == BodyResult(p, i) IN
       /\ workers' = [workers EXCEPT ![p][i] =
             IF proms[p].t = "allCall" /\ b.out.tag = "nil"
             THEN Worker("done", b.out) ELSE Worker("deliver", b.out)]
       /\ counter' = [counter EXCEPT ![p] = b.cnt]
    /\ invoked' = [invoked EXCEPT ![p] = IF BodyEnters(p) THEN @ + 1 ELSE @]
    /\ UNCHANGED <<proms, complete, err, results, first, waits, lastCall>>

\* A faulty run(): the deferred function stores every recovered panic, also
\* for a promise that is complete.
RunFinishRecoveringTwice(p, o) ==
    IF o.tag = "panic"
    THEN [complete |-> TRUE, err |-> o.e, results |-> results[p]]
    ELSE LET n == Len(o.vals)
             popped == proms[p].returnsError
         IN  [complete |-> TRUE,
              err |-> IF popped /\ o.vals[n].v # 0 THEN ErrorOf(o.vals[n]) ELSE err[p],
              results |-> IF popped THEN SubSeq(o.vals, 1, n - 1) ELSE o.vals]

\* A faulty run(): the deferred function recovers the panic and drops it.
RunFinishDroppingPanic(p, o) ==
    IF o.tag = "panic"
    THEN [complete |-> complete[p], err |-> err[p], results |-> results[p]]
    ELSE LET n == Len(o.vals)
             popped == proms[p].returnsError
         IN  [complete |-> TRUE,
              err |-> IF popped /\ o.vals[n].v # 0 THEN ErrorOf(o.vals[n]) ELSE err[p],
              results |-> IF popped THEN SubSeq(o.vals, 1, n - 1) ELSE o.vals]

\* The fields of p after the goroutine carrying o leaves run(): the deferred
\* recover() of a panic, or the critical section of the normal return.
RunFinish(p, o) ==
    IF o.tag = "panic"
    THEN IF complete[p]
         THEN [complete |-> complete[p], err |-> err[p], results |-> results[p]]
         ELSE [complete |-> TRUE, err |-> o.e, results |-> results[p]]
    ELSE LET n == Len(o.vals)
             popped == proms[p].returnsError
         IN  [complete |-> TRUE,
              err |-> IF popped /\ o.vals[n].v # 0 THEN ErrorOf(o.vals[n]) ELSE err[p],
              results |-> IF popped THEN SubSeq(o.vals, 1, n - 1) ELSE o.vals]

\* A faulty Race: a later collector overwrites what the first one stored.
RaceFinishOverwriting(p, o) ==
    IF o.tag = "panic"
    THEN [complete |-> TRUE, err |-> o.e, results |-> << >>]
    ELSE [complete |-> TRUE, err |-> NoErr, results |-> o.vals]

\* The fields of a Race promise after the collector carrying o ends: the
\* first outcome to arrive settles the promise, once (I1, section 4.3).
RaceFinish(p, o) ==
    IF complete[p]
    THEN [complete |-> complete[p], err |-> err[p], results |-> results[p]]
    ELSE IF o.tag = "panic"
    THEN [complete |-> TRUE, err |-> o.e, results |-> results[p]]
    ELSE [complete |-> TRUE, err |-> err[p], results |-> o.vals]

RunDeliver(p, i) ==
    /\ p \in Ids /\ i \in 1..Len(workers[p])
    /\ workers[p][i].pc = "deliver"
    /\ LET f == IF proms[p].t = "raceCall"
                THEN RaceFinish(p, workers[p][i].out)
                ELSE RunFinish(p, workers[p][i].out) IN
       /\ complete' = [complete EXCEPT ![p] = f.complete]
       /\ err' = [err EXCEPT ![p] = f.err]
       /\ results' = [results EXCEPT ![p] = f.results]
       /\ first' = [first EXCEPT ![p] =
             IF complete[p] \/ ~f.complete THEN @
             ELSE [done |-> TRUE, err |-> f.err, results |-> f.results]]
    /\ workers' = [workers EXCEPT ![p][i].pc = "done"]
    /\ UNCHANGED <<proms, counter, invoked, waits, lastCall>>

(***************************************************************************)
(* Wait.                                                                   *)
(***************************************************************************)
\* The output lists tried with Wait.
OutLists == { << >>, <<PtrTo(INT)>>, <<PtrTo(STR)>>, <<PtrTo(SliceOf(INT))>>,
              <<PtrTo(INT), PtrTo(INT)>>, <<INT>> }

ValidSliceReturn(resultType, out) ==
    /\ Len(resultType) # 0
    /\ Len(out) = 1
    /\ \A j \in 2..Len(resultType) : resultType[j] = resultType[1]
    /\ IsPtr(out[1])
    /\ IsSlice(Elem(out[1]))
    /\ Elem(Elem(out[1])) = resultType[1]

\* A faulty Wait: only the number of outputs is checked.
WaitRejectsCountingOnly(p, out) ==
    /\ ~ValidSliceReturn(proms[p].resultType, out)
    /\ Len(proms[p].resultType) # Len(out)

WaitRejects(p, out) ==
    /\ ~ValidSliceReturn(proms[p].resultType, out)
    /\ \/ Len(proms[p].resultType) # Len(out)
       \/ \E j \in 1..Len(out) : out[j] # PtrTo(proms[p].resultType[j])

\* Wait up to its wait loop: the checks of the outputs.
WaitCall(p, out) ==
    /\ Len(waits) < MaxWaits
    /\ p \in Ids
    /\ IF WaitRejects(p, out)
       THEN StructuralPanic("Wait")
       ELSE /\ waits' = Append(waits,
                  [p |-> p, out |-> out,
                   slice |-> ValidSliceReturn(proms[p].resultType, out),
                   slots |-> Repeat(<< >>, Len(out)),
                   st |-> "blocked", ret |-> NoErr])
            /\ lastCall' = Outcome("Wait", "ok", 0)
            /\ UNCHANGED <<proms, complete, err, results, counter, workers,
                           invoked, first>>

\* How many of res the loop outRvs[i].Set(res[i]) stores before it ends or
\* panics (no such slot, or a value the slot cannot hold).
RECURSIVE Stored(_, _, _)
Stored(res, elems, j) ==
    IF j > Len(res) \/ j > Len(elems) \/ res[j].ty # elems[j] THEN j - 1
    ELSE Stored(res, elems, j + 1)

\* A faulty Wait: the fresh slice is assigned before the error is looked at.
WaitFinishAssigningSliceFirst(w) ==
    LET p == w.p
        res == results[p]
        rt == proms[p].resultType
        fresh == << [j \in 1..Len(rt) |-> Zero(rt[1])] >>
    IN  IF ~complete[p] THEN w
        ELSE IF err[p] # NoErr
        THEN [w EXCEPT !.st = "returned",
                       !.ret = Wrap(err[p], "panic() during promise execution"),
                       !.slots = IF w.slice THEN fresh ELSE w.slots]
        ELSE IF w.slice
        THEN LET k == Stored(res, Repeat(rt[1], Len(rt)), 1) IN
             [w EXCEPT !.st = IF k = Len(res) THEN "returned" ELSE "panicked",
                       !.slots = << [j \in 1..Len(rt) |->
                                       IF j <= k THEN res[j] ELSE Zero(rt[1])] >>]
        ELSE LET k == Stored(res, [j \in 1..Len(w.out) |-> Elem(w.out[j])], 1) IN
             [w EXCEPT !.st = IF k = Len(res) THEN "returned" ELSE "panicked",
                       !.slots = [j \in 1..Len(w.out) |->
                                    IF j <= k THEN <<res[j]>> ELSE w.slots[j]]]

\* A faulty Wait: no wait loop, the fields are read as they are.
WaitFinishWithoutLoop(w) ==
    LET p == w.p
        res == results[p]
        rt == proms[p].resultType
    IN  IF err[p] # NoErr
        THEN [w EXCEPT !.st = "returned",
                       !.ret = Wrap(err[p], "panic() during promise execution")]
        ELSE IF w.slice
        THEN LET k == Stored(res, Repeat(rt[1], Len(rt)), 1) IN
             [w EXCEPT !.st = IF k = Len(res) THEN "returned" ELSE "panicked",
                       !.slots = << [j \in 1..Len(rt) |->
                                       IF j <= k THEN res[j] ELSE Zero(rt[1])] >>]
        ELSE LET k == Stored(res, [j \in 1..Len(w.out) |-> Elem(w.out[j])], 1) IN
             [w EXCEPT !.st = IF k = Len(res) THEN "returned" ELSE "panicked",
                       !.slots = [j \in 1..Len(w.out) |->
                                    IF j <= k THEN <<res[j]>> ELSE w.slots[j]]]

\* The waiter w once its wait loop has seen p complete: the rest of Wait.
WaitFinish(w) ==
    LET p == w.p
        res == results[p]
        rt == proms[p].resultType
    IN  IF ~complete[p] THEN w
        ELSE IF err[p] # NoErr
        THEN [w EXCEPT !.st = "returned",
                       !.ret = Wrap(err[p], "panic() during promise execution")]
        ELSE IF w.slice
        THEN LET k == Stored(res, Repeat(rt[1], Len(rt)), 1) IN
             [w EXCEPT !.st = IF k = Len(res) THEN "returned" ELSE "panicked",
                       !.slots = << [j \in 1..Len(rt) |->
                                       IF j <= k THEN res[j] ELSE Zero(rt[1])] >>]
        ELSE LET k == Stored(res, [j \in 1..Len(w.out) |-> Elem(w.out[j])], 1) IN
             [w EXCEPT !.st = IF k = Len(res) THEN "returned" ELSE "panicked",
                       !.slots = [j \in 1..Len(w.out) |->
                                    IF j <= k THEN <<res[j]>> ELSE w.slots[j]]]

\* A faulty Wait: the results are taken out of the promise.
WaitReturnTakingResults(n) ==
    /\ n \in 1..Len(waits)
    /\ waits[n].st = "blocked"
    /\ WaitFinish(waits[n]).st # "blocked"
    /\ waits' = [waits EXCEPT ![n] = WaitFinish(waits[n])]
    /\ results' = [results EXCEPT ![waits[n].p] = << >>]
    /\ UNCHANGED <<proms, complete, err, counter, workers, invoked,
                   first, lastCall>>

WaitReturn(n) ==
    /\ n \in 1..Len(waits)
    /\ waits[n].st = "blocked"
    /\ WaitFinish(waits[n]).st # "blocked"
    /\ waits' = [waits EXCEPT ![n] = WaitFinish(waits[n])]
    /\ UNCHANGED <<proms, complete, err, results, counter, workers, invoked,
                   first, lastCall>>

Next ==
    \/ \E fn \in UserFns \cup {NotAFunction}, args \in ArgLists : New(fn, args)
    \/ \E p \in Ids, fn \in UserFns \cup {NotAFunction} : Then(p, fn)
    \/ \E ps \in PromiseLists : All(ps)
    \/ \E ps \in PromiseLists : Any(ps)
    \/ \E p \in Ids, i \in 1..MaxFanIn : RunBody(p, i)
    \/ \E p \in Ids, i \in 1..MaxFanIn : RunDeliver(p, i)
    \/ \E p \in Ids, out \in OutLists : WaitCall(p, out)
    \/ \E n \in 1..MaxWaits : WaitReturn(n)

Spec == Init /\ [][Next]_vars

\* The Go scheduler runs every runnable goroutine: a goroutine of run()
\* or a caller of Wait that can take its next step eventually takes it.
Fairness ==
    /\ \A p \in 1..MaxPromises, i \in 1..MaxFanIn :
          WF_vars(RunBody(p, i)) /\ WF_vars(RunDeliver(p, i))
    /\ \A n \in 1..MaxWaits : WF_vars(WaitReturn(n))

\* The same program driven with fewer functions and output lists, for the
\* properties of its infinite behaviours.
LiveFns == {empty, failingPromise, neverendingPromise, returnError}
LiveOutLists == { << >>, <<PtrTo(STR)>> }

LiveNext ==
    \/ \E fn \in LiveFns : New(fn, << >>)
    \/ \E p \in Ids, fn \in {empty, failingPromise} : Then(p, fn)
    \/ \E ps \in PromiseLists : All(ps)
    \/ \E ps \in PromiseLists : Any(ps)
    \/ \E p \in Ids, i \in 1..MaxFanIn : RunBody(p, i)
    \/ \E p \in Ids, i \in 1..MaxFanIn : RunDeliver(p, i)
    \/ \E p \in Ids, out \in LiveOutLists : WaitCall(p, out)
    \/ \E n \in 1..MaxWaits : WaitReturn(n)

LiveSpec == Init /\ [][LiveNext]_vars /\ Fairness

\* The program with Race, driven as the tests of Race drive it: promises
\* built by New from functions that return a string, Race over them, Wait.
RaceFns == {success, returnError, justPanic, empty}
RaceOutLists == { <<PtrTo(STR)>>, << >> }

RaceNext ==
    \/ \E fn \in RaceFns : New(fn, << >>)
    \/ \E ps \in RaceLists : Race(ps)
    \/ \E p \in Ids, i \in 1..MaxFanIn : RunBody(p, i)
    \/ \E p \in Ids, i \in 1..MaxFanIn : RunDeliver(p, i)
    \/ \E p \in Ids, out \in RaceOutLists : WaitCall(p, out)
    \/ \E n \in 1..MaxWaits : WaitReturn(n)

RaceSpec == Init /\ [][RaceNext]_vars /\ Fairness

(***************************************************************************)
(* The wait loops in full: `for !p.complete { p.cond.Wait() }` tests the   *)
(* flag under the promise's lock, parks in cond.Wait(), and tests again    *)
(* after a Broadcast.  Spec takes each loop as one await; here a goroutine *)
(* in a loop is "parked" or "woken", and only a Broadcast unparks it.      *)
(***************************************************************************)

\* The promise that worker i of p awaits (p is not built by New).
Awaited(p, i) ==
    IF proms[p].t = "thenCall" THEN proms[p].prior[1] ELSE proms[p].prior[i]

\* Wait: the loop finds p.complete unset and calls p.cond.Wait().
WaitPark(n) ==
    /\ n \in 1..Len(waits)
    /\ waits[n].st = "blocked"
    /\ ~complete[waits[n].p]
    /\ waits' = [waits EXCEPT ![n].st = "parked"]
    /\ UNCHANGED <<proms, complete, err, results, counter, workers, invoked,
                   first, lastCall>>

\* Wait: p.cond.Wait() returns after a Broadcast, back to the loop's test.
WaitWake(n) ==
    /\ n \in 1..Len(waits)
    /\ waits[n].st = "woken"
    /\ waits' = [waits EXCEPT ![n].st = "blocked"]
    /\ UNCHANGED <<proms, complete, err, results, counter, workers, invoked,
                   first, lastCall>>

\* thenCall, allCall, anyCall: the loop finds prior.complete unset and
\* calls prior.cond.Wait().
BodyPark(p, i) ==
    /\ p \in Ids /\ i \in 1..Len(workers[p])
    /\ proms[p].t # "simpleCall"
    /\ workers[p][i].pc = "body"
    /\ ~complete[Awaited(p, i)]
    /\ workers' = [workers EXCEPT ![p][i].pc = "parked"]
    /\ UNCHANGED <<proms, complete, err, results, counter, invoked, first,
                   waits, lastCall>>

\* thenCall, allCall, anyCall: prior.cond.Wait() returns after a Broadcast.
BodyWake(p, i) ==
    /\ p \in Ids /\ i \in 1..Len(workers[p])
    /\ workers[p][i].pc = "woken"
    /\ workers' = [workers EXCEPT ![p][i].pc = "body"]
    /\ UNCHANGED <<proms, complete, err, results, counter, invoked, first,
                   waits, lastCall>>

\* run() calls p.cond.Broadcast() on every path but the early return of
\* the deferred function for a promise that is complete.
Broadcasts(p, o) == ~(o.tag = "panic" /\ complete[p])

\* A faulty run(): the outcome is stored and p.cond.Broadcast() is left out.
RunDeliverSilently(p, i) == RunDeliver(p, i)

\* run() from p.cond.L.Lock() on, with its Broadcast: every goroutine
\* parked on p's condition variable is woken.
RunDeliverBroadcast(p, i) ==
    /\ p \in Ids /\ i \in 1..Len(workers[p])
    /\ workers[p][i].pc = "deliver"
    /\ LET o == workers[p][i].out
           f == RunFinish(p, o)
           wakes == Broadcasts(p, o)
       IN  /\ complete' = [complete EXCEPT ![p] = f.complete]
           /\ err' = [err EXCEPT ![p] = f.err]
           /\ results' = [results EXCEPT ![p] = f.results]
           /\ first' = [first EXCEPT ![p] =
                 IF complete[p] \/ ~f.complete THEN @
                 ELSE [done |-> TRUE, err |-> f.err, results |-> f.results]]
           /\ workers' = [q \in 1..Len(workers) |->
                 [j \in 1..Len(workers[q]) |->
                    IF q = p /\ j = i
                    THEN [workers[q][j] EXCEPT !.pc = "done"]
                    ELSE IF /\ wakes /\ workers[q][j].pc = "parked"
                            /\ Awaited(q, j) = p
                    THEN [workers[q][j] EXCEPT !.pc = "woken"]
                    ELSE workers[q][j]]]
           /\ waits' = [n \in 1..Len(waits) |->
                 IF wakes /\ waits[n].st = "parked" /\ waits[n].p = p
                 THEN [waits[n] EXCEPT !.st = "woken"]
                 ELSE waits[n]]
    /\ UNCHANGED <<proms, counter, invoked, lastCall>>

\* The wait loops do not depend on what a promise returns: promises without
\* results, Wait without outputs, and All for the collectors (anyCall has
\* the same loop).
CondFns == {empty, failingPromise}
CondOutLists == { << >> }

CondNext ==
    \/ \E fn \in CondFns : New(fn, << >>)
    \/ \E p \in Ids : Then(p, empty)
    \/ \E ps \in PromiseLists : All(ps)
    \/ \E p \in Ids, i \in 1..MaxFanIn : RunBody(p, i)
    \/ \E p \in Ids, i \in 1..MaxFanIn : BodyPark(p, i)
    \/ \E p \in Ids, i \in 1..MaxFanIn : BodyWake(p, i)
    \/ \E p \in Ids, i \in 1..MaxFanIn : RunDeliverBroadcast(p, i)
    \/ \E p \in Ids, out \in CondOutLists : WaitCall(p, out)
    \/ \E n \in 1..MaxWaits : WaitPark(n)
    \/ \E n \in 1..MaxWaits : WaitWake(n)
    \/ \E n \in 1..MaxWaits : WaitReturn(n)

\* A goroutine that can run is run; nothing obliges one to park.
CondFairness ==
    /\ \A p \in 1..MaxPromises, i \in 1..MaxFanIn :
          /\ WF_vars(RunBody(p, i)) /\ WF_vars(BodyWake(p, i))
          /\ WF_vars(RunDeliverBroadcast(p, i))
    /\ \A n \in 1..MaxWaits : WF_vars(WaitReturn(n)) /\ WF_vars(WaitWake(n))

CondSpec == Init /\ [][CondNext]_vars /\ CondFairness

(***************************************************************************)
(* A graph one promise larger: promises built by New from functions that  *)
(* return, an Any promise over them, and one All promise over these        *)
(* MaxPromises promises.                                                   *)
(***************************************************************************)
GraphFns == {identity, success}
GraphOutLists == { << >>, <<PtrTo(INT), PtrTo(INT), PtrTo(STR)>> }
GraphIds == 1..(MaxPromises + 1)

GraphNext ==
    \/ \E fn \in GraphFns, args \in ArgLists :
          Len(proms) < MaxPromises - 1 /\ New(fn, args)
    \/ \E ps \in PromiseLists : Len(proms) = MaxPromises - 1 /\ Any(ps)
    \/ \E ps \in PromiseLists : Len(proms) = MaxPromises /\ AllOf(ps)
    \/ \E p \in Ids, i \in 1..MaxFanIn : RunBody(p, i)
    \/ \E p \in Ids, i \in 1..MaxFanIn : RunDeliver(p, i)
    \/ \E p \in Ids, out \in GraphOutLists : WaitCall(p, out)
    \/ \E n \in 1..MaxWaits : WaitReturn(n)

GraphFairness ==
    /\ \A p \in GraphIds, i \in 1..MaxFanIn :
          WF_vars(RunBody(p, i)) /\ WF_vars(RunDeliver(p, i))
    /\ \A n \in 1..MaxWaits : WF_vars(WaitReturn(n))

GraphSpec == Init /\ [][GraphNext]_vars /\ GraphFairness

(***************************************************************************)
(* Vocabulary of the properties.                                           *)
(***************************************************************************)
Failed(p) == complete[p] /\ err[p] # NoErr
Succeeded(p) == complete[p] /\ err[p] = NoErr
FirstFailed(p) == first[p].done /\ first[p].err # NoErr
FirstSucceeded(p) == first[p].done /\ first[p].err = NoErr
AllDone(p) == \A i \in 1..Len(workers[p]) : workers[p][i].pc = "done"
Priors(p) == { proms[p].prior[i] : i \in 1..Len(proms[p].prior) }
Untouched(w) == \A j \in 1..Len(w.slots) : w.slots[j] = << >>
WaitsOn(p) == { n \in 1..Len(waits) : waits[n].p = p }
\* The values Wait stored for w, slot by slot.
Delivered(w) ==
    IF w.slice THEN w.slots[1] ELSE Concat(w.slots)
\* The non-error values g returns for args.
ResultsOf(fn, args, self) ==
    LET raw == RawResults(fn, args, self) IN
    IF GetResultType(fn.out).returnsError THEN SubSeq(raw, 1, Len(raw) - 1) ELSE raw
ReturnsCleanly(fn, args) == ~CallRejects(fn, args) /\ fn.beh = "ret"

(***************************************************************************)
(* C1: whenever the predecessor p of a completed Then promise completed    *)
(* with an error, the Then promise holds an error too, and a Wait that     *)
(* came back from it returned that error.                                  *)
(***************************************************************************)
C1_ThenFailsWhenPriorFailed ==
    \A q \in Ids :
        (proms[q].t = "thenCall" /\ complete[q] /\ Failed(proms[q].prior[1]))
        => /\ err[q] # NoErr
           /\ \A n \in WaitsOn(q) :
                 waits[n].st # "blocked" => waits[n].ret # NoErr

(***************************************************************************)
(* C2: a completed Then promise whose predecessor p completed successfully *)
(* with results r, and whose g returns cleanly on r, has no error and      *)
(* holds g(r); a Wait that came back from it returned nil and stored       *)
(* exactly g(r).                                                           *)
(***************************************************************************)
C2_ThenDeliversResultOfG ==
    \A q \in Ids :
        LET p == proms[q].prior[1] IN
        (/\ proms[q].t = "thenCall" /\ complete[q]
         /\ FirstSucceeded(p)
         /\ ReturnsCleanly(proms[q].fn, first[p].results))
        => /\ err[q] = NoErr
           /\ results[q] = ResultsOf(proms[q].fn, first[p].results, q)
           /\ \A n \in WaitsOn(q) :
                 waits[n].st # "blocked" =>
                    /\ waits[n].st = "returned" /\ waits[n].ret = NoErr
                    /\ Delivered(waits[n]) =
                          ResultsOf(proms[q].fn, first[p].results, q)

(***************************************************************************)
(* C3: once every predecessor of an All promise has completed successfully *)
(* and all its collectors have finished, the All promise is complete       *)
(* without error and holds the predecessors' results concatenated in       *)
(* argument order.                                                         *)
(***************************************************************************)
C3_AllConcatenatesInOrder ==
    \A a \in Ids :
        (/\ proms[a].t = "allCall" /\ AllDone(a)
         /\ \A p \in Priors(a) : FirstSucceeded(p))
        => /\ Succeeded(a)
           /\ results[a] = Concat([j \in 1..Len(proms[a].prior) |->
                                      first[proms[a].prior[j]].results])

(***************************************************************************)
(* C4: an All promise with a predecessor that completed with an error is   *)
(* never complete without error: a complete All without error has only     *)
(* successfully completed predecessors, and a Wait that came back from an  *)
(* All with a failed predecessor returned a non-nil error.                 *)
(***************************************************************************)
C4_AllFailsWhenAPriorFailed ==
    \A a \in Ids :
        (proms[a].t = "allCall" /\ complete[a])
        => /\ (\E p \in Priors(a) : Failed(p)) => err[a] # NoErr
           /\ err[a] = NoErr => \A p \in Priors(a) : Succeeded(p)
           /\ \A n \in WaitsOn(a) :
                 (waits[n].st # "blocked" /\ \E p \in Priors(a) : Failed(p))
                 => waits[n].st = "returned" /\ waits[n].ret # NoErr

C4_Witness ==
    \E a \in Ids :
        /\ proms[a].t = "allCall" /\ Failed(a)
        /\ \E p \in Priors(a) : Failed(p)
        /\ \E p \in Priors(a) : Succeeded(p)
        /\ \E n \in WaitsOn(a) : waits[n].st = "returned" /\ waits[n].ret # NoErr

(***************************************************************************)
(* C5: from the moment a predecessor of an All promise has completed with  *)
(* an error, the All promise eventually is complete with an error and      *)
(* every Wait blocked on it eventually returns, whatever the other         *)
(* predecessors do.                                                        *)
(***************************************************************************)
HasFailedPrior(a) ==
    IF a \in Ids
    THEN proms[a].t = "allCall" /\ \E p \in Priors(a) : Failed(p)
    ELSE FALSE

FailedAll(a) == IF a \in Ids THEN Failed(a) ELSE FALSE

BlockedOnFailingAll(n) ==
    IF n \in 1..Len(waits)
    THEN waits[n].st = "blocked" /\ HasFailedPrior(waits[n].p)
    ELSE FALSE

ReturnedError(n) ==
    IF n \in 1..Len(waits)
    THEN waits[n].st = "returned" /\ waits[n].ret # NoErr
    ELSE FALSE

C5_AllFailsFast ==
    /\ \A a \in 1..MaxPromises : HasFailedPrior(a) ~> FailedAll(a)
    /\ \A n \in 1..MaxWaits : BlockedOnFailingAll(n) ~> ReturnedError(n)

C5_Witness ==
    \E a \in Ids :
        /\ HasFailedPrior(a) /\ Failed(a)
        /\ \E p \in Priors(a) :
              /\ ~complete[p]
              /\ proms[p].fn = neverendingPromise
        /\ \E n \in WaitsOn(a) : waits[n].st = "returned"

(***************************************************************************)
(* C6: once all collectors of an Any promise have finished and some        *)
(* predecessor completed successfully, the Any promise is complete without *)
(* error and holds the results of a successful predecessor.                *)
(***************************************************************************)
C6_AnySucceedsWhenAPriorSucceeds ==
    \A a \in Ids :
        (/\ proms[a].t = "anyCall" /\ AllDone(a)
         /\ \E p \in Priors(a) : FirstSucceeded(p))
        => /\ Succeeded(a)
           /\ \E p \in Priors(a) :
                 FirstSucceeded(p) /\ results[a] = first[p].results

(***************************************************************************)
(* C7: a complete promise holds the error and the results its first        *)
(* completion stored.                                                      *)
(***************************************************************************)
C7_CompletionIsFinal ==
    \A p \in Ids :
        complete[p] => first[p].done /\ err[p] = first[p].err
                                     /\ results[p] = first[p].results

(***************************************************************************)
(* C8: a New or Then promise whose user function panicked is, once its     *)
(* goroutine has ended, complete with the panic as its error, and a Wait   *)
(* that came back from it returned a non-nil error and stored nothing.     *)
(***************************************************************************)
UserPanicked(p) ==
    /\ proms[p].t \in {"simpleCall", "thenCall"}
    /\ proms[p].fn.beh = "panic"
    /\ invoked[p] > 0

C9_WaitOnFailureWritesNothing ==
    \A n \in 1..Len(waits) :
        FirstFailed(waits[n].p) =>
           /\ Untouched(waits[n])
           /\ waits[n].st # "blocked" =>
                 waits[n].st = "returned" /\ waits[n].ret # NoErr

C9_Witness ==
    \E n \in 1..Len(waits) :
        /\ waits[n].slice
        /\ FirstFailed(waits[n].p)
        /\ waits[n].st = "returned"

(***************************************************************************)
(* C10: while the promise of a Wait is not complete, that Wait is blocked  *)
(* and has written to none of its output slots.                            *)
(***************************************************************************)
C10_WaitBlocksUntilComplete ==
    \A n \in 1..Len(waits) :
        ~complete[waits[n].p] =>
           waits[n].st = "blocked" /\ Untouched(waits[n])

C10_Witness ==
    \E n \in 1..Len(waits) :
        /\ ~complete[waits[n].p]
        /\ waits[n].out # << >>
        /\ workers[waits[n].p][1].pc = "deliver"
        /\ workers[waits[n].p][1].out.tag = "ret"

(***************************************************************************)
(* C11: a Wait with one pointer-to-slice output that came back from a      *)
(* promise that completed without error returned nil and assigned a slice  *)
(* that is exactly the list of the promise's results: as long as there     *)
(* are results, and the i-th element is the i-th result.                   *)
(***************************************************************************)
C11_WaitCollectsIntoSlice ==
    \A n \in 1..Len(waits) :
        LET w == waits[n] IN
        (w.slice /\ w.st # "blocked" /\ FirstSucceeded(w.p))
        => /\ w.st = "returned" /\ w.ret = NoErr
           /\ Len(w.slots[1]) = Len(first[w.p].results)
           /\ \A i \in 1..Len(first[w.p].results) :
                 w.slots[1][i] = first[w.p].results[i]

(***************************************************************************)
(* Vocabulary of the structural errors.                                    *)
(***************************************************************************)
\* A call that panicked at the call site and left every promise, goroutine
\* and waiter as it was.
PanickedAtCall(op) ==
    /\ lastCall' = Outcome(op, "panic", 0)
    /\ UNCHANGED <<proms, complete, err, results, counter, workers, invoked,
                   first, waits>>

\* Every step that is a call of op (and changes anything) is among these.
CallOf(op) ==
    lastCall'.op = op /\ (lastCall' # lastCall \/ proms' # proms \/ waits' # waits)

\* The collect-into-sequence pattern: one output, a pointer to a slice of
\* the one type T all the result types are.
CollectsIntoSequence(resultType, out) ==
    /\ Len(out) = 1
    /\ Len(resultType) > 0
    /\ \E j \in 1..Len(resultType) :
          /\ out[1] = PtrTo(SliceOf(resultType[j]))
          /\ \A i \in 1..Len(resultType) : resultType[i] = resultType[j]

WrongOutputCount(resultType, out) == Len(out) # Len(resultType)

WrongOutputType(resultType, out) ==
    \E j \in 1..Len(out) :
        j <= Len(resultType) /\ out[j] # PtrTo(resultType[j])

(***************************************************************************)
(* C12 as stated: every Wait whose number of outputs differs from the      *)
(* number of result types without matching the collect-into-sequence       *)
(* pattern, or one of whose outputs is not a pointer to the corresponding  *)
(* result type, panics at the call and changes nothing.                    *)
(***************************************************************************)
C12_Original ==
    [][CallOf("Wait") =>
       \A p \in Ids, out \in OutLists :
          (/\ \/ /\ WrongOutputCount(proms[p].resultType, out)
                 /\ ~CollectsIntoSequence(proms[p].resultType, out)
              \/ WrongOutputType(proms[p].resultType, out)
           /\ WaitCall(p, out))
          => PanickedAtCall("Wait")]_vars

(***************************************************************************)
(* C12, amended: every Wait whose outputs do not match the                 *)
(* collect-into-sequence pattern and whose number of outputs differs from  *)
(* the number of result types, or one of whose outputs is not a pointer to *)
(* the corresponding result type, panics at the call, whatever state the   *)
(* promise is in, and changes nothing: no waiter exists, no output is      *)
(* written.                                                                *)
(***************************************************************************)
C12_WaitMismatchPanics ==
    [][CallOf("Wait") =>
       \A p \in Ids, out \in OutLists :
          (/\ ~CollectsIntoSequence(proms[p].resultType, out)
           /\ \/ WrongOutputCount(proms[p].resultType, out)
              \/ WrongOutputType(proms[p].resultType, out)
           /\ WaitCall(p, out))
          => PanickedAtCall("Wait")]_vars

C12_Witness ==
    /\ lastCall = Outcome("Wait", "panic", 0)
    /\ Len(proms) = 1
    /\ Failed(1)
    /\ proms[1].fn = returnError
    /\ waits = << >>

\* Whether the parameters of fn take values of the types resultType: one
\* type per parameter, a variadic parameter of element type T taking the
\* zero or more types after the fixed parameters, all of them T.
ParamsMatch(fn, resultType) ==
    IF fn.variadic
    THEN LET k == Len(fn.in) - 1
             T == Elem(fn.in[Len(fn.in)])
         IN  /\ Len(resultType) >= k
             /\ \A i \in 1..Len(resultType) :
                   resultType[i] = IF i <= k THEN fn.in[i] ELSE T
    ELSE fn.in = resultType

WrongArguments(fn, args) ==
    \/ Len(args) # Len(fn.in)
    \/ \E i \in 1..Len(args) : i <= Len(fn.in) /\ args[i].ty # fn.in[i]

(***************************************************************************)
(* C13: every call of New with a non-function, a wrong number of arguments *)
(* or an argument of the wrong type, and every call of Then with a         *)
(* non-function or a function whose parameters do not match the            *)
(* predecessor's result types, panics at the call: no promise is built, no *)
(* goroutine is started and no user function is entered.                   *)
(***************************************************************************)
C13_MismatchPanicsAtConstruction ==
    [][/\ CallOf("New") =>
          \A fn \in UserFns \cup {NotAFunction}, args \in ArgLists :
             (/\ fn = NotAFunction \/ WrongArguments(fn, args)
              /\ New(fn, args))
             => PanickedAtCall("New")
       /\ CallOf("Then") =>
          \A p \in Ids, fn \in UserFns \cup {NotAFunction} :
             (/\ fn = NotAFunction \/ ~ParamsMatch(fn, proms[p].resultType)
              /\ Then(p, fn))
             => PanickedAtCall("Then")]_vars

(***************************************************************************)
(* C14: a call of Any with two or more promises panics at the call,        *)
(* building no promise and starting no collector, exactly when the result  *)
(* types of some promise differ from those of the first one in length or   *)
(* at some position; otherwise it does not panic.                          *)
(***************************************************************************)
TypesDiffer(ta, tb) ==
    \/ Len(ta) # Len(tb)
    \/ \E i \in 1..Len(ta) : i <= Len(tb) /\ ta[i] # tb[i]

C14_AnyPanicsIffTypesDiffer ==
    [][CallOf("Any") =>
       \A ps \in PromiseLists :
          (Len(ps) >= 2 /\ Any(ps))
          => (PanickedAtCall("Any")
              <=> \E j \in 1..Len(ps) :
                     TypesDiffer(proms[ps[j]].resultType,
                                 proms[ps[1]].resultType))]_vars

C14_Witness ==
    /\ lastCall = Outcome("Any", "panic", 0)
    /\ Len(proms) = 2
    /\ Len(proms[1].resultType) = Len(proms[2].resultType)
    /\ proms[1].resultType # proms[2].resultType

(***************************************************************************)
(* Vocabulary of Race.                                                     *)
(***************************************************************************)
\* The error chain e ends with the chain cause.
ContainsCause(e, cause) ==
    /\ cause # NoErr
    /\ Len(e) >= Len(cause)
    /\ SubSeq(e, Len(e) - Len(cause) + 1, Len(e)) = cause

\* a is complete and no other promise is: a completed before all others.
CompletedAlone(a) ==
    IF a \in Ids
    THEN complete[a] /\ \A b \in Ids \ {a} : ~complete[b]
    ELSE FALSE

\* The Race promise r holds the outcome of its predecessor a, and every
\* Wait that came back from r reported that outcome.
SettledAs(r, a) ==
    IF err[a] # NoErr
    THEN /\ ContainsCause(err[r], err[a])
         /\ \A n \in WaitsOn(r) :
               waits[n].st # "blocked" =>
                  /\ waits[n].st = "returned"
                  /\ ContainsCause(waits[n].ret, err[a])
                  /\ Untouched(waits[n])
    ELSE /\ err[r] = NoErr
         /\ results[r] = results[a]
         /\ \A n \in WaitsOn(r) :
               waits[n].st # "blocked" =>
                  /\ waits[n].st = "returned" /\ waits[n].ret = NoErr
                  /\ Delivered(waits[n]) = results[a]

CompleteRaceOver(r, a) ==
    IF r \in Ids /\ a \in Ids
    THEN proms[r].t = "raceCall" /\ complete[r] /\ a \in Priors(r)
    ELSE FALSE

HoldsOutcomeOf(r, a) == IF CompleteRaceOver(r, a) THEN SettledAs(r, a) ELSE TRUE

C16_ThenAcceptsVariadic ==
    [][CallOf("Then") =>
       \A p \in Ids, fn \in UserFns :
          (fn.variadic /\ Then(p, fn))
          => (PanickedAtCall("Then")
              <=> ~ParamsMatch(fn, proms[p].resultType))]_vars

(***************************************************************************)
(* C17: for every promise p with children built by Then, however many:     *)
(* the function of p is entered at most once, and exactly once when p      *)
(* completed without error; the function of every child is entered at most *)
(* once; and when p completed without error, every child whose function    *)
(* was entered called it with the results p completed with, whether the    *)
(* child was built before or after p completed.                            *)
(***************************************************************************)
Children(p) ==
    { q \in Ids : proms[q].t = "thenCall" /\ proms[q].prior[1] = p }

HasFunction(p) == proms[p].t \in {"simpleCall", "thenCall"}

C17_ThenFansOut ==
    \A p \in Ids :
        Children(p) # {} =>
           /\ HasFunction(p) =>
                 /\ invoked[p] <= 1
                 /\ FirstSucceeded(p) => invoked[p] = 1
           /\ \A q \in Children(p) :
                 /\ invoked[q] <= 1
                 /\ (FirstSucceeded(p) /\ invoked[q] = 1)
                    => workers[q][1].out = Call(proms[q].fn, first[p].results, q)

(***************************************************************************)
(* C18: an Any promise over two or more promises that all completed with   *)
(* an error is never complete without error; once its collectors have      *)
(* ended it is complete with an error, and every Wait that came back from  *)
(* it returned a non-nil error.                                            *)
(***************************************************************************)
C18_AnyFailsWhenAllPriorsFailed ==
    \A a \in Ids :
        (/\ proms[a].t = "anyCall"
         /\ \A p \in Priors(a) : Failed(p))
        => /\ complete[a] => err[a] # NoErr
           /\ AllDone(a) => Failed(a)
           /\ \A n \in WaitsOn(a) :
                 waits[n].st # "blocked" =>
                    waits[n].st = "returned" /\ waits[n].ret # NoErr

C18_Witness ==
    \E a \in Ids :
        /\ proms[a].t = "anyCall"
        /\ proms[a].prior[1] # proms[a].prior[2]
        /\ \A p \in Priors(a) : Failed(p)
        /\ AllDone(a) /\ Failed(a)
        /\ \E n \in WaitsOn(a) : waits[n].st = "returned" /\ waits[n].ret # NoErr

(***************************************************************************)
(* C19: a call of Any with exactly one promise returns that promise and    *)
(* changes nothing: no promise is built, no collector is started, and the  *)
(* promise's fields, result types and outcome stay as they are.            *)
(***************************************************************************)
C19_AnyOfOneIsThatPromise ==
    [][CallOf("Any") =>
       \A ps \in PromiseLists :
          (Len(ps) = 1 /\ Any(ps))
          => /\ lastCall' = Outcome("Any", "ok", ps[1])
             /\ UNCHANGED <<proms, complete, err, results, counter, workers,
                            invoked, first, waits>>]_vars

C19_Witness ==
    /\ lastCall = Outcome("Any", "ok", 1)
    /\ Len(proms) = 1
    /\ proms[1].fn = identity
    /\ Succeeded(1)

(***************************************************************************)
(* C20: the promise a call of All with no promises returns has no result   *)
(* types, never holds an error or a result, and eventually is complete     *)
(* without error; a Wait with no outputs on such a promise is accepted and *)
(* eventually returns nil.                                                 *)
(***************************************************************************)
ReturnedByAllOfNone(p) ==
    IF p \in Ids
    THEN lastCall = Outcome("All", "ok", p) /\ proms[p].prior = << >>
    ELSE FALSE

EmptyAndClean(p) ==
    IF p \in Ids
    THEN /\ proms[p].resultType = << >>
         /\ err[p] = NoErr /\ results[p] = << >>
         /\ ~WaitRejects(p, << >>)
    ELSE FALSE

CompleteWithNothing(p) ==
    IF p \in Ids
    THEN Succeeded(p) /\ results[p] = << >> /\ proms[p].resultType = << >>
    ELSE FALSE

\* The promise New(empty), as All returns it.
IsNoOp(p) ==
    /\ proms[p].t = "simpleCall" /\ proms[p].fn = empty /\ proms[p].args = << >>

BlockedOnNoOp(n) ==
    IF n \in 1..Len(waits)
    THEN waits[n].st = "blocked" /\ waits[n].out = << >> /\ IsNoOp(waits[n].p)
    ELSE FALSE

ReturnedNil(n) ==
    IF n \in 1..Len(waits)
    THEN waits[n].st = "returned" /\ waits[n].ret = NoErr
    ELSE FALSE

C20_AllOfNoneCompletes ==
    /\ \A p \in 1..MaxPromises :
          /\ [](ReturnedByAllOfNone(p) => EmptyAndClean(p))
          /\ ReturnedByAllOfNone(p) ~> CompleteWithNothing(p)
    /\ \A n \in 1..MaxWaits : BlockedOnNoOp(n) ~> ReturnedNil(n)

C20_Witness ==
    \E p \in Ids :
        /\ ReturnedByAllOfNone(p) /\ CompleteWithNothing(p)
        /\ \E n \in 1..Len(waits) :
              /\ ReturnedNil(n) /\ waits[n].out = << >>
              /\ proms[waits[n].p] = proms[p]

(***************************************************************************)
(* C21: the function of a Then promise whose predecessor completed with an *)
(* error has never been entered.                                           *)
(***************************************************************************)
C21_ThenSkipsGAfterFailure ==
    \A q \in Ids :
        (proms[q].t = "thenCall" /\ Failed(proms[q].prior[1]))
        => invoked[q] = 0

(***************************************************************************)
(* C22: a complete promise never holds both an error and results; and a    *)
(* complete promise whose function returned with a trailing error holds,   *)
(* for a non-nil error, that error and no results, and for a nil error no  *)
(* error and the leading return values.                                    *)
(***************************************************************************)
C22_ErrorClearsResults ==
    \A p \in Ids :
        complete[p] =>
           /\ err[p] # NoErr => results[p] = << >>
           /\ (/\ HasFunction(p) /\ proms[p].returnsError
               /\ workers[p][1].pc = "done" /\ workers[p][1].out.tag = "ret")
              => LET vals == workers[p][1].out.vals
                     last == vals[Len(vals)]
                 IN  IF last.v # 0
                     THEN err[p] = ErrorOf(last) /\ results[p] = << >>
                     ELSE /\ err[p] = NoErr
                          /\ results[p] = SubSeq(vals, 1, Len(vals) - 1)

(***************************************************************************)
(* C23: a complete All promise holds the error and the results its first   *)
(* completion stored; a collector still to deliver carries a panic, which  *)
(* run() drops for a complete promise, so no collector stores or signals   *)
(* again; and the error of a failed All is the wrapped error of one of its *)
(* predecessors, as the first collector to recover stored it.              *)
(***************************************************************************)
C23_AllCompletesOnce ==
    \A a \in Ids :
        (proms[a].t = "allCall" /\ complete[a])
        => /\ first[a].done
           /\ err[a] = first[a].err /\ results[a] = first[a].results
           /\ \A i \in 1..Len(workers[a]) :
                 workers[a][i].pc = "deliver" => workers[a][i].out.tag = "panic"
           /\ err[a] # NoErr =>
                 \E p \in Priors(a) :
                    /\ Failed(p)
                    /\ err[a] = Wrap(err[p], "error encountered in promise")

C23_Witness ==
    \E a \in Ids :
        /\ proms[a].t = "allCall" /\ Failed(a) /\ AllDone(a)
        /\ Len(proms[a].prior) = 2 /\ proms[a].prior[1] # proms[a].prior[2]
        /\ \A p \in Priors(a) : Failed(p)
        /\ \A i \in 1..Len(workers[a]) : workers[a][i].out.tag = "panic"

\* The results of a in the order of its predecessors: one segment for each
\* predecessor, holding what that predecessor stored at its first completion
\* or what it stores now.
InPredecessorOrder(a) ==
    LET priors == proms[a].prior IN
    \E now \in [1..Len(priors) -> BOOLEAN] :
        results[a] = Concat([j \in 1..Len(priors) |->
                               IF now[j] THEN results[priors[j]]
                               ELSE first[priors[j]].results])

C24_Original ==
    \A a \in Ids :
        (proms[a].t = "allCall" /\ complete[a])
        => /\ counter[a] = 0
           /\ err[a] = NoErr => InPredecessorOrder(a)

(***************************************************************************)
(* C24: every All promise that completed without an error has its counter *)
(* at 0 and holds its predecessors' results in the order of the            *)
(* predecessors.                                                           *)
(***************************************************************************)
C24_SuccessfulAllHasCounterZero ==
    \A a \in Ids :
        (proms[a].t = "allCall" /\ Succeeded(a))
        => counter[a] = 0 /\ InPredecessorOrder(a)

C24_Witness ==
    \E a \in Ids :
        /\ proms[a].t = "allCall" /\ Succeeded(a) /\ counter[a] = 0
        /\ Len(proms[a].prior) = 2
        /\ results[proms[a].prior[1]] # << >>
        /\ results[proms[a].prior[2]] # << >>
        /\ results[proms[a].prior[1]] # results[proms[a].prior[2]]
        /\ results[a] = results[proms[a].prior[1]] \o results[proms[a].prior[2]]

\* The collectors of a whose decrement gave zero: they leave allCall with
\* the assembled results.
ZeroObservers(a) ==
    { i \in 1..Len(workers[a]) : workers[a][i].out.tag = "ret" }

(***************************************************************************)
(* C25: the counter of an All promise over n predecessors stays within     *)
(* 0..n; at most one collector sees its decrement give zero, and then      *)
(* every predecessor has completed without an error; the results of the    *)
(* All promise are stored by that collector alone, every other collector   *)
(* leaves run() without storing results.                                   *)
(***************************************************************************)
C25_OneZeroObserver ==
    \A a \in Ids :
        proms[a].t = "allCall" =>
           /\ counter[a] \in 0..Len(proms[a].prior)
           /\ Cardinality(ZeroObservers(a)) <= 1
           /\ ZeroObservers(a) # {} =>
                 /\ counter[a] = 0
                 /\ \A p \in Priors(a) : Succeeded(p)
           /\ \A i \in 1..Len(workers[a]) :
                 /\ workers[a][i].pc = "deliver" => workers[a][i].out.tag # "nil"
                 /\ (workers[a][i].pc = "done" /\ workers[a][i].out.tag = "ret")
                    => first[a].results = workers[a][i].out.vals
           /\ (first[a].done /\ first[a].err = NoErr) =>
                 \E i \in ZeroObservers(a) : workers[a][i].pc = "done"
           /\ ZeroObservers(a) = {} => results[a] = << >>

C25_Witness ==
    \E a \in Ids :
        /\ proms[a].t = "allCall" /\ Succeeded(a) /\ AllDone(a)
        /\ Len(proms[a].prior) = 2 /\ proms[a].prior[1] # proms[a].prior[2]
        /\ Cardinality(ZeroObservers(a)) = 1
        /\ \E i \in 1..2 : workers[a][i].out.tag = "nil"
        /\ results[a] # << >>

(***************************************************************************)
(* C26: when the function of a Then promise has been entered, or its       *)
(* worker has left thenCall, the predecessor is complete; and a collector  *)
(* of an All or Any promise that has read the error and the results of its *)
(* predecessor found that predecessor complete.                            *)
(***************************************************************************)
C26_ReadsFollowCompletion ==
    \A q \in Ids :
        /\ (proms[q].t = "thenCall"
               /\ (invoked[q] > 0 \/ workers[q][1].pc # "body"))
              => complete[proms[q].prior[1]]
        /\ proms[q].t \in {"allCall", "anyCall"} =>
              \A i \in 1..Len(workers[q]) :
                 workers[q][i].pc # "body" => complete[proms[q].prior[i]]

C26_Witness ==
    \E q, a \in Ids :
        /\ proms[q].t = "thenCall" /\ invoked[q] = 1
        /\ proms[a].t \in {"allCall", "anyCall"}
        /\ workers[a][1].pc # "body"
        /\ proms[a].prior[1] = proms[q].prior[1]
        /\ complete[proms[q].prior[1]]

\* The caller n of Wait is in its wait loop and the promise is complete.
WaitingOnComplete(n) ==
    IF n \in 1..Len(waits)
    THEN /\ waits[n].st \in {"blocked", "parked", "woken"}
         /\ complete[waits[n].p]
    ELSE FALSE

WaitProceeded(n) ==
    IF n \in 1..Len(waits) THEN waits[n].st \in {"returned", "panicked"} ELSE FALSE

\* Worker j of q is in its wait loop and the promise it awaits is complete.
WorkerWaitingOnComplete(q, j) ==
    IF q \in Ids
    THEN IF j \in 1..Len(workers[q]) /\ proms[q].t # "simpleCall"
         THEN /\ workers[q][j].pc \in {"body", "parked", "woken"}
              /\ complete[Awaited(q, j)]
         ELSE FALSE
    ELSE FALSE

WorkerProceeded(q, j) ==
    IF q \in Ids
    THEN IF j \in 1..Len(workers[q])
         THEN workers[q][j].pc \in {"deliver", "done"}
         ELSE FALSE
    ELSE FALSE

(***************************************************************************)
(* C27: a caller of Wait that is in its wait loop while the promise is     *)
(* complete eventually leaves Wait, and a worker of a Then, All or Any     *)
(* promise that is in its wait loop while the promise it awaits is         *)
(* complete eventually leaves the loop, whether it parked before the       *)
(* completion or arrived after it.                                         *)
(***************************************************************************)
C27_NoMissedWakeUp ==
    /\ \A n \in 1..MaxWaits : WaitingOnComplete(n) ~> WaitProceeded(n)
    /\ \A q \in 1..MaxPromises, j \in 1..MaxFanIn :
          WorkerWaitingOnComplete(q, j) ~> WorkerProceeded(q, j)

C27_Witness ==
    \E n \in 1..Len(waits), q \in Ids :
        /\ waits[n].st = "woken"
        /\ proms[q].t # "simpleCall"
        /\ workers[q][1].pc = "woken"
        /\ Awaited(q, 1) = waits[n].p
        /\ complete[waits[n].p]

(***************************************************************************)
(* C28: an Any promise over two or more predecessors has the result types  *)
(* its predecessors share, and when it completes without an error it holds *)
(* one value for each of these types.                                      *)
(***************************************************************************)
C28_AnyHasPredecessorsTypes ==
    \A a \in Ids :
        proms[a].t = "anyCall" =>
           /\ proms[a].resultType = proms[proms[a].prior[1]].resultType
           /\ FirstSucceeded(a) =>
                 Len(first[a].results) = Len(proms[a].resultType)

\* The step changes a field of promise p that run() writes.
Written(p) ==
    \/ complete'[p] # complete[p] \/ err'[p] # err[p]
    \/ results'[p] # results[p] \/ counter'[p] # counter[p]

(***************************************************************************)
(* C29: a step that changes the complete flag, the error, the results or   *)
(* the counter of a promise is a step of one of that promise's own         *)
(* workers; in particular no step of Wait and no step of a worker of a     *)
(* Then, All or Any promise built over it changes them, and the fields     *)
(* fixed at construction never change.                                     *)
(***************************************************************************)
C29_OnlyOwnWorkersWrite ==
    [][\A p \in Ids :
          /\ proms'[p] = proms[p]
          /\ Written(p) =>
                /\ waits' = waits
                /\ \E i \in 1..Len(workers[p]) :
                      /\ workers'[p][i] # workers[p][i]
                      /\ \A q \in Ids \ {p} : workers'[q] = workers[q] /\ ~Written(q)]_vars

C29_Witness ==
    \E a \in Ids :
        /\ proms[a].t \in {"allCall", "anyCall"} /\ Failed(a) /\ AllDone(a)
        /\ Len(proms[a].prior) = 2
        /\ Failed(proms[a].prior[1])
        /\ Succeeded(proms[a].prior[2]) /\ results[proms[a].prior[2]] # << >>
        /\ first[proms[a].prior[2]].results = results[proms[a].prior[2]]
        /\ \E n \in WaitsOn(a) : waits[n].st = "returned"

\* Promise p is built, in a graph none of whose functions hangs.
BuiltToTerminate(p) ==
    IF p \in Ids
    THEN \A q \in Ids : proms[q].fn.beh # "hang"
    ELSE FALSE

Completed(p) == IF p \in Ids THEN complete[p] ELSE FALSE

\* Wait accepted the outputs of caller n, in a graph none of whose
\* functions hangs.
WaitingToReturn(n) ==
    IF n \in 1..Len(waits)
    THEN /\ waits[n].st = "blocked"
         /\ \A q \in Ids : proms[q].fn.beh # "hang"
    ELSE FALSE

WaitReturned(n) ==
    IF n \in 1..Len(waits) THEN waits[n].st = "returned" ELSE FALSE

(***************************************************************************)
(* C30: when no function of the graph hangs, every promise built           *)
(* eventually is complete, whether or not Wait is called, and every call   *)
(* of Wait whose outputs were accepted eventually returns.                 *)
(***************************************************************************)
C30_GraphTerminates ==
    /\ \A p \in GraphIds : BuiltToTerminate(p) ~> Completed(p)
    /\ \A n \in 1..MaxWaits : WaitingToReturn(n) ~> WaitReturned(n)
====
